---------------------------- MODULE Spec2Model ----------------------------
(***************************************************************************)
(* A model of faux-gnome-screensaver.py: the XScreenSaverManager state     *)
(* tracker (watcher protocol, config reader, inhibition scheduler), the    *)
(* FauxGnomeScreensaverService facade, the GnomeSessionManagerListener and *)
(* the activation / main loop / deactivation sequence of main().           *)
(*                                                                         *)
(* Text is modelled as sequences of one-character strings, so that the     *)
(* parsing the program does (split, strip, strptime, re.search) is         *)
(* computed and not assumed.  A Python value that may be None is modelled  *)
(* as a sequence of length 0 (None) or 1 (the value).                      *)
(***************************************************************************)
EXTENDS Integers, Sequences, FiniteSets, TLC

(***************************************************************************)
(* Optional values                                                         *)
(***************************************************************************)
None == << >>

Some(x) == << x >>

(***************************************************************************)
(* Text: str.strip, str.split, digits                                      *)
(***************************************************************************)
WS == {" ", "\t", "\n", "\r", "\f"}

Digits == <<"0","1","2","3","4","5","6","7","8","9">>

UpperCase ==
    <<"A","B","C","D","E","F","G","H","I","J","K","L","M",
      "N","O","P","Q","R","S","T","U","V","W","X","Y","Z">>

LowerCase ==
    <<"a","b","c","d","e","f","g","h","i","j","k","l","m",
      "n","o","p","q","r","s","t","u","v","w","x","y","z">>

IsDigit(c) == \E i \in 1..10 : Digits[i] = c

DigitVal(c) == (CHOOSE i \in 1..10 : Digits[i] = c) - 1

lower_char(c) ==
    IF \E i \in 1..26 : UpperCase[i] = c
    THEN LowerCase[CHOOSE i \in 1..26 : UpperCase[i] = c]
    ELSE c

lower(s) == [i \in 1..Len(s) |-> lower_char(s[i])]

Drop(s, n) == SubSeq(s, n + 1, Len(s))

StartsWith(s, p) == Len(s) >= Len(p) /\ SubSeq(s, 1, Len(p)) = p

RECURSIVE lstrip(_)
lstrip(s) ==
    IF s = << >> THEN << >>
    ELSE IF Head(s) \in WS THEN lstrip(Tail(s)) ELSE s

RECURSIVE rstrip(_)
rstrip(s) ==
    IF s = << >> THEN << >>
    ELSE IF s[Len(s)] \in WS THEN rstrip(SubSeq(s, 1, Len(s) - 1)) ELSE s

strip(s) == rstrip(lstrip(s))

\* the longest prefix of s without whitespace
RECURSIVE TakeWord(_)
TakeWord(s) ==
    IF s = << >> \/ Head(s) \in WS THEN << >>
    ELSE <<Head(s)>> \o TakeWord(Tail(s))

\* s.split(): the whitespace-separated tokens of s
RECURSIVE split(_)
split(s) ==
    LET t == lstrip(s)
    IN  IF t = << >> THEN << >>
        ELSE <<TakeWord(t)>> \o split(Drop(t, Len(TakeWord(t))))

\* s.split(None, 1): at most one split; the remainder keeps its trailing
\* whitespace, and a remainder of whitespace alone is no element
split1(s) ==
    LET t == lstrip(s)
        w == TakeWord(t)
        r == lstrip(Drop(t, Len(w)))
    IN  IF t = << >> THEN << >>
        ELSE IF r = << >> THEN <<w>> ELSE <<w, r>>

\* s.split(sep) for a one-character separator
RECURSIVE SplitOn(_, _)
SplitOn(s, sep) ==
    IF \A i \in 1..Len(s) : s[i] # sep THEN <<s>>
    ELSE LET k == CHOOSE i \in 1..Len(s) :
                    s[i] = sep /\ \A j \in 1..(i - 1) : s[j] # sep
         IN  <<SubSeq(s, 1, k - 1)>> \o SplitOn(Drop(s, k), sep)

RECURSIVE Number(_)
Number(s) ==
    IF s = << >> THEN 0
    ELSE Number(SubSeq(s, 1, Len(s) - 1)) * 10 + DigitVal(s[Len(s)])

AllDigits(s) == \A i \in 1..Len(s) : IsDigit(s[i])

\* one or two digits, as the directives %d %H %M %S accept
Digits12(s) == Len(s) \in {1, 2} /\ AllDigits(s)

(***************************************************************************)
(* datetime: strptime for the two formats of the program, subtraction      *)
(***************************************************************************)
WeekdayAbbr ==
    { <<"m","o","n">>, <<"t","u","e">>, <<"w","e","d">>, <<"t","h","u">>,
      <<"f","r","i">>, <<"s","a","t">>, <<"s","u","n">> }

MonthAbbr ==
    << <<"j","a","n">>, <<"f","e","b">>, <<"m","a","r">>, <<"a","p","r">>,
       <<"m","a","y">>, <<"j","u","n">>, <<"j","u","l">>, <<"a","u","g">>,
       <<"s","e","p">>, <<"o","c","t">>, <<"n","o","v">>, <<"d","e","c">> >>

IsLeap(y) == y % 4 = 0 /\ (y % 100 # 0 \/ y % 400 = 0)

DaysInMonth(y, m) ==
    IF m = 2 THEN (IF IsLeap(y) THEN 29 ELSE 28)
    ELSE IF m \in {4, 6, 9, 11} THEN 30 ELSE 31

RECURSIVE DaysBeforeMonth(_, _)
DaysBeforeMonth(y, m) ==
    IF m = 1 THEN 0 ELSE DaysBeforeMonth(y, m - 1) + DaysInMonth(y, m - 1)

DaysBeforeYear(y) ==
    (y - 1) * 365 + ((y - 1) \div 4) - ((y - 1) \div 100) + ((y - 1) \div 400)

\* datetime.toordinal(): the day number of y-m-d, 0001-01-01 being day 1
ymd2ord(y, m, d) == DaysBeforeYear(y) + DaysBeforeMonth(y, m) + d

\* '%H:%M:%S' on one token: None on a ValueError, else the three fields
ParseHMS(tok) ==
    LET p == SplitOn(tok, ":")
    IN  IF /\ Len(p) = 3
           /\ \A i \in 1..3 : Digits12(p[i])
           /\ Number(p[1]) <= 23
           /\ Number(p[2]) <= 59
           /\ Number(p[3]) <= 59
        THEN Some([hour |-> Number(p[1]), minute |-> Number(p[2]),
                   second |-> Number(p[3])])
        ELSE None

\* datetime.strptime(s, TIMEOUT_FORMAT)
strptime_timeout(s) == ParseHMS(s)

\* datetime.strptime(s, DATETIME_FORMAT): None on a ValueError, else the
\* datetime as [ord |-> day number, sec |-> second of the day]
strptime_datetime(s) ==
    LET f == split(s)
    IN  IF /\ s # << >>
           /\ Head(s) \notin WS
           /\ s[Len(s)] \notin WS
           /\ Len(f) = 5
           /\ lower(f[1]) \in WeekdayAbbr
           /\ \E m \in 1..12 : MonthAbbr[m] = lower(f[2])
           /\ Digits12(f[3])
           /\ ParseHMS(f[4]) # None
           /\ Len(f[5]) = 4
           /\ AllDigits(f[5])
        THEN LET m  == CHOOSE k \in 1..12 : MonthAbbr[k] = lower(f[2])
                 d  == Number(f[3])
                 y  == Number(f[5])
                 t  == ParseHMS(f[4])[1]
             IN  IF y >= 1 /\ d >= 1 /\ d <= DaysInMonth(y, m)
                 THEN Some([ord |-> ymd2ord(y, m, d),
                            sec |-> t.hour * 3600 + t.minute * 60 + t.second])
                 ELSE None
        ELSE None

\* a - b for two datetimes: the normalised timedelta (0 <= seconds < 86400)
TimeDelta(a, b) ==
    LET total == (a.sec - b.sec)
    IN  IF total >= 0
        THEN [days |-> a.ord - b.ord, seconds |-> total]
        ELSE [days |-> a.ord - b.ord - 1, seconds |-> total + 86400]

(***************************************************************************)
(* Program constants                                                       *)
(***************************************************************************)
DEFAULT_TIMEOUT == 600

\* 'timeout:'
W_timeout == <<"t","i","m","e","o","u","t",":">>

W_BLANK == <<"B","L","A","N","K">>

W_LOCK == <<"L","O","C","K">>

W_UNBLANK == <<"U","N","B","L","A","N","K">>

\* 'screen ' and ' since ', the literals of the pattern of activate()
W_screen == <<"s","c","r","e","e","n"," ">>

W_since == <<" ","s","i","n","c","e"," ">>

W_nonblanked == <<"n","o","n","-","b","l","a","n","k","e","d">>

W_locked == <<"l","o","c","k","e","d">>

\* the order of main(): components are activated in this order
Order ==
    <<"gset_manager", "xss_manager", "gs_service", "gsm_listener",
      "ck_listener", "sl_listener">>

(***************************************************************************)
(* Inputs: the texts the environment produces                              *)
(***************************************************************************)
\* 'Mon Jan  1 09:59:00 2024'
TS_0959 ==
    <<"M","o","n"," ","J","a","n"," "," ","1"," ","0","9",":","5","9",":","0","0"," ","2","0","2","4">>

\* 'Mon Jan 01 10:00:00 2024'
TS_1000 ==
    <<"M","o","n"," ","J","a","n"," ","0","1"," ","1","0",":","0","0",":","0","0"," ","2","0","2","4">>

\* 'Mon Jan 01 10:00:05 2024'
TS_1000_05 ==
    <<"M","o","n"," ","J","a","n"," ","0","1"," ","1","0",":","0","0",":","0","5"," ","2","0","2","4">>

\* 'Mon Jan 01 10:01:30 2024'
TS_1001_30 ==
    <<"M","o","n"," ","J","a","n"," ","0","1"," ","1","0",":","0","1",":","3","0"," ","2","0","2","4">>

\* 'Tue Jan 02 10:00:00 2024'
TS_NextDay ==
    <<"T","u","e"," ","J","a","n"," ","0","2"," ","1","0",":","0","0",":","0","0"," ","2","0","2","4">>

NL == <<"\n">>

SP == <<" ">>

\* complete lines of the watcher: 'BLANK <date>', 'LOCK <date>', 'UNBLANK <date>'
Line_BLANK == W_BLANK \o SP \o TS_1000 \o NL

Line_LOCK == W_LOCK \o SP \o TS_1000_05 \o NL

Line_UNBLANK == W_UNBLANK \o SP \o TS_1000_05 \o NL

\* 'RUN 3': a state of the watcher protocol the program does not know
Line_RUN == <<"R","U","N"," ","3">> \o NL

\* a line of one token, and an empty line
Line_FOO == <<"F","O","O">> \o NL

Line_EMPTY == NL

\* 'LOCK garbage': a known state with no timestamp after it
Line_BADTS == W_LOCK \o SP \o <<"g","a","r","b","a","g","e">> \o NL

WatcherBursts ==
    { Line_BLANK, Line_LOCK, Line_UNBLANK, Line_RUN, Line_FOO, Line_EMPTY,
      Line_BADTS }

\* 'XScreenSaver 5.15: ' and ' (hack #1)', around the answer to -time
Reply_prefix ==
    <<"X","S","c","r","e","e","n","S","a","v","e","r"," ","5",".","1","5",":"," ">>

Reply_suffix == <<" ","(","h","a","c","k"," ","#","1",")">>

Reply_nonblanked ==
    Reply_prefix \o W_screen \o W_nonblanked \o W_since \o TS_0959 \o Reply_suffix

Reply_locked ==
    Reply_prefix \o W_screen \o W_locked \o W_since \o TS_0959 \o Reply_suffix

Reply_blanked ==
    Reply_prefix \o W_screen \o <<"b","l","a","n","k","e","d">> \o W_since
        \o TS_0959 \o Reply_suffix

\* 'no saver status'
Reply_nomatch ==
    <<"n","o"," ","s","a","v","e","r"," ","s","t","a","t","u","s">>

\* 'screen blanked since yesterday'
Reply_baddate ==
    W_screen \o <<"b","l","a","n","k","e","d">> \o W_since
        \o <<"y","e","s","t","e","r","d","a","y">>

\* what _do_command('time') may return: None, or the stripped output
TimeReplies ==
    { None, Some(Reply_nonblanked), Some(Reply_locked), Some(Reply_blanked),
      Some(Reply_nomatch), Some(Reply_baddate) }

\* lines of ~/.xscreensaver
\* 'timeout: 00:05:30\n'
Cfg_330 ==
    <<"t","i","m","e","o","u","t",":"," ","0","0",":","0","5",":","3","0","\n">>

\* 'timeout: bogus\n'
Cfg_bogus ==
    <<"t","i","m","e","o","u","t",":"," ","b","o","g","u","s","\n">>

\* 'timeout: 00:01:00\n'
Cfg_60 ==
    <<"t","i","m","e","o","u","t",":"," ","0","0",":","0","1",":","0","0","\n">>

\* 'timeout:\t0:00:25\n'
Cfg_25 ==
    <<"t","i","m","e","o","u","t",":","\t","0",":","0","0",":","2","5","\n">>

\* 'lock: True\n'
Cfg_other ==
    <<"l","o","c","k",":"," ","T","r","u","e","\n">>

\* 'timeout: 0:10:00 x\n'
Cfg_three ==
    <<"t","i","m","e","o","u","t",":"," ","0",":","1","0",":","0","0"," ","x","\n">>

File_330 == <<Cfg_330>>

File_bogus == <<Cfg_bogus, Cfg_60>>

File_25 == <<Cfg_other, Cfg_25, Cfg_330>>

File_three == <<Cfg_three, Cfg_other>>

\* the contents ~/.xscreensaver may have: None when it cannot be opened
OptionsFiles ==
    { None, Some(File_330), Some(File_bogus), Some(File_25), Some(File_three) }

\* Gio.FileMonitorEvent
FileMonitorEvents ==
    { "CHANGED", "CHANGES_DONE_HINT", "DELETED", "CREATED", "ATTRIBUTE_CHANGED" }

\* the wall clock: what datetime.datetime.now() gives when the tracker is
\* activated, and what it may give when the active time is asked for later
ClockStart == strptime_datetime(TS_1001_30)[1]

ClockTimes == { ClockStart, strptime_datetime(TS_NextDay)[1] }

(***************************************************************************)
(* Bounds                                                                  *)
(***************************************************************************)
\* no more GLib timeout sources than this are ever attached
MaxTimers == 2

(***************************************************************************)
(* State                                                                   *)
(***************************************************************************)
VARIABLES
    pc,               \* main(): "activate", "loop", "deactivate", "exit", "crash"
    activated,        \* main(): the components activated so far, in order
    deactivated,      \* main(): the components deactivated so far, in order
    xss,              \* the XScreenSaverManager object: its fields
    sources,          \* GLib: the attached sources the tracker created
    monitor,          \* Gio: the file monitor delivers 'changed' to the tracker
    gs_service,       \* FauxGnomeScreensaverService._service
    gsm,              \* the GnomeSessionManagerListener object: its fields
    options_file,     \* the environment: the content of ~/.xscreensaver
    op,               \* the operation the last step ran
    arg,              \* the input the last step ran it with
    trace,            \* what the last step did outside the program, in order
    delivered,        \* the 'active-changed' emissions of the last step
    timeout_changed,  \* the 'timeout-changed' emissions of the last step
    broadcast,        \* the ActiveChanged D-Bus signals of the last step
    ret,              \* what the last step returned to its caller
    notified,         \* the value of the last 'active-changed' of this activation
    dpms              \* the last DPMS setting the program ran xset for

vars ==
    << pc, activated, deactivated, xss, sources, monitor, gs_service, gsm,
       options_file, op, arg, trace, delivered, timeout_changed,
       broadcast, ret, notified, dpms >>

\* XScreenSaverManager.__init__
xss_init(no_dpms) ==
    [ screensaver        |-> None,
      active             |-> None,
      active_since       |-> None,
      locked             |-> None,
      watcher            |-> None,
      watcher_read_buf   |-> None,
      watcher_id         |-> None,
      timeout            |-> None,
      options_path       |-> None,
      options_gfile      |-> None,
      options_monitor    |-> None,
      options_monitor_id |-> None,
      manage_dpms        |-> ~no_dpms,
      inhibit_id         |-> None ]

\* GnomeSessionManagerListener.__init__
gsm_init == [ iface |-> None, inhibited |-> None ]

(***************************************************************************)
(* The program as it runs one operation: the operators below take the      *)
(* state w the operation started from or has reached and give the state it *)
(* leaves.  w.raised says an exception is propagating, w.result is the     *)
(* value returned.                                                         *)
(***************************************************************************)
World ==
    [ xss             |-> xss,
      sources         |-> sources,
      monitor         |-> monitor,
      gs_service      |-> gs_service,
      gsm             |-> gsm,
      trace           |-> << >>,
      delivered       |-> << >>,
      timeout_changed |-> << >>,
      broadcast       |-> << >>,
      notified        |-> notified,
      dpms            |-> dpms,
      result          |-> None,
      raised          |-> FALSE ]

Commit(w) ==
    /\ xss' = w.xss
    /\ sources' = w.sources
    /\ monitor' = w.monitor
    /\ gs_service' = w.gs_service
    /\ gsm' = w.gsm
    /\ trace' = w.trace
    /\ delivered' = w.delivered
    /\ timeout_changed' = w.timeout_changed
    /\ broadcast' = w.broadcast
    /\ ret' = w.result
    /\ notified' = w.notified
    /\ dpms' = w.dpms

Did(w, what) == [w EXCEPT !.trace = Append(@, what)]

Raise(w) == [w EXCEPT !.raised = TRUE, !.result = None]

Return(w, v) == [w EXCEPT !.result = Some(v)]

Max(a, b) == IF a >= b THEN a ELSE b

(***************************************************************************)
(* GLib sources                                                            *)
(***************************************************************************)
SourceIds(w) == { s.id : s \in w.sources }

\* the id GLib gives the next source: one no attached source has (the
\* watcher's id is never given again, though GLib would not reuse any)
NewSourceId(w) ==
    CHOOSE n \in 1..(Cardinality(w.sources) + 2) :
        /\ n \notin SourceIds(w)
        /\ Some(n) # w.xss.watcher_id
        /\ \A k \in 1..(n - 1) : k \in SourceIds(w) \/ Some(k) = w.xss.watcher_id

\* GLib.io_add_watch / GLib.timeout_add: the source is attached
io_add_watch(w) ==
    Did([w EXCEPT !.sources = @ \cup {[id |-> NewSourceId(w), kind |-> "io", ms |-> 0]}],
        <<"GLib.io_add_watch">>)

timeout_add(w, ms) ==
    Did([w EXCEPT !.sources = @ \cup {[id |-> NewSourceId(w), kind |-> "timeout", ms |-> ms]}],
        <<"GLib.timeout_add">>)

source_remove(w, id) ==
    Did([w EXCEPT !.sources = { s \in @ : s.id # id }], <<"GLib.source_remove">>)

Timers(srcs) == { s \in srcs : s.kind = "timeout" }

(***************************************************************************)
(* FauxGnomeScreensaverService                                             *)
(***************************************************************************)
\* FauxGnomeScreensaverDBusService.ActiveChanged: the D-Bus signal goes out
ActiveChanged(w, new_value) ==
    Did([w EXCEPT !.broadcast = Append(@, new_value)], <<"ActiveChanged">>)

\* a facade that does not pass the notification on
active_changed_unforwarded(w, active) == w

\* FauxGnomeScreensaverService.active_changed
active_changed(w, active) ==
    IF w.gs_service # None THEN ActiveChanged(w, active) ELSE w

\* self.emit('active-changed', active): the handler main() connected runs,
\* the state of the tracker at that moment is recorded with the value
emit_active_changed(w, active) ==
    active_changed(
        [Did(w, <<"emit", "active-changed">>) EXCEPT
            !.notified = Some(active),
            !.delivered = Append(@, [value  |-> active,
                                     active |-> w.xss.active,
                                     locked |-> w.xss.locked,
                                     since  |-> w.xss.active_since])],
        active)

\* self.emit('timeout-changed', timeout): main() connects no handler
emit_timeout_changed(w, timeout) ==
    [Did(w, <<"emit", "timeout-changed">>) EXCEPT
        !.timeout_changed = Append(@, [value  |-> timeout,
                                       timers |-> Timers(w.sources)])]

(***************************************************************************)
(* XScreenSaverManager                                                     *)
(***************************************************************************)
\* _do_command: the helper runs with one argument; the call returns its
\* output, or None when it could not be spawned or was killed by a signal,
\* and raises nothing.  Only activate() reads what it returns.
do_command(w, cmd) == Did(w, <<"xscreensaver-command", cmd>>)

\* _set_dpms
set_dpms(w, enable) ==
    IF w.xss.manage_dpms
    THEN [Did(w, <<"xset", IF enable THEN "+dpms" ELSE "-dpms">>) EXCEPT
             !.dpms = Some(enable)]
    ELSE w

\* a tick without `return True`: the call returns None
do_inhibit_once(w) ==
    [(IF w.xss.locked # Some(TRUE)
      THEN set_dpms(do_command(w, "-deactivate"), FALSE)
      ELSE w) EXCEPT !.result = None]

\* a tick that does not look at self._locked
do_inhibit_when_locked(w) ==
    Return(set_dpms(do_command(w, "-deactivate"), FALSE), TRUE)

\* _do_inhibit: `not self._locked` holds for False and for None
do_inhibit(w) ==
    Return(IF w.xss.locked # Some(TRUE)
           THEN set_dpms(do_command(w, "-deactivate"), FALSE)
           ELSE w,
           TRUE)

\* an inhibit() that leaves the timer of the call before attached
cancel_inhibit_never(w) == w

\* inhibit: `if self._inhibit_id is not None: GLib.source_remove(...)`
cancel_inhibit(w) ==
    IF w.xss.inhibit_id # None
    THEN source_remove(w, w.xss.inhibit_id[1])
    ELSE w

\* inhibit
inhibit(w) ==
    LET interval == Max(20, w.xss.timeout[1] - 10)
        w1 == cancel_inhibit(w)
        w2 == do_inhibit(w1)
        w3 == timeout_add(w2, interval * 1000)
    IN  [w3 EXCEPT !.xss.inhibit_id = Some(NewSourceId(w2)), !.result = None]

\* an uninhibit() that forgets to clear self._inhibit_id
uninhibit_keeping_id(w) ==
    IF w.xss.inhibit_id # None
    THEN source_remove(set_dpms(w, TRUE), w.xss.inhibit_id[1])
    ELSE w

\* uninhibit
uninhibit(w) ==
    IF w.xss.inhibit_id # None
    THEN [source_remove(set_dpms(w, TRUE), w.xss.inhibit_id[1]) EXCEPT
             !.xss.inhibit_id = None]
    ELSE w

\* a loop that goes on to the next line when the value does not parse
RECURSIVE scan_timeout_past_failure(_, _)
scan_timeout_past_failure(lines, timeout) ==
    IF lines = << >> THEN timeout
    ELSE LET a == split(strip(Head(lines)))
         IN  IF Len(a) = 2 /\ a[1] = W_timeout /\ strptime_timeout(a[2]) # None
             THEN LET dt == strptime_timeout(a[2])
                  IN  dt[1].second + (dt[1].minute * 60) + (dt[1].hour * 3600)
             ELSE scan_timeout_past_failure(Tail(lines), timeout)

\* the loop of _read_timeout over the lines of the file: the first line of
\* two tokens whose first is 'timeout:' decides, and ends the loop
RECURSIVE scan_timeout(_, _)
scan_timeout(lines, timeout) ==
    IF lines = << >> THEN timeout
    ELSE LET a == split(strip(Head(lines)))
         IN  IF Len(a) = 2 /\ a[1] = W_timeout
             THEN LET dt == strptime_timeout(a[2])
                  IN  IF dt # None
                      THEN dt[1].second + (dt[1].minute * 60) + (dt[1].hour * 3600)
                      ELSE timeout
             ELSE scan_timeout(Tail(lines), timeout)

\* a handler that reads the file whatever the event is
computed_timeout_reading(event_type, init, file) ==
    IF file # None THEN scan_timeout(file[1], DEFAULT_TIMEOUT)
    ELSE DEFAULT_TIMEOUT

\* the timeout _read_timeout computes: file is the content of the options
\* file at that moment, None when open() raises IOError
computed_timeout(event_type, init, file) ==
    IF event_type = "CHANGES_DONE_HINT" \/ init
    THEN IF file # None THEN scan_timeout(file[1], DEFAULT_TIMEOUT)
         ELSE DEFAULT_TIMEOUT
    ELSE DEFAULT_TIMEOUT

\* a reload that leaves the timer of the old timeout running
restart_inhibit_never(w) == w

\* _read_timeout: `if self._inhibit_id is not None: self.inhibit()`
restart_inhibit(w) == IF w.xss.inhibit_id # None THEN inhibit(w) ELSE w

\* a handler that takes every computed timeout for a new one
timeout_differs_always(w, timeout) == TRUE

\* _read_timeout: `if timeout != self._timeout`
timeout_differs(w, timeout) == Some(timeout) # w.xss.timeout

\* _read_timeout
read_timeout(w, event_type, init, file) ==
    IF event_type = "CHANGES_DONE_HINT" \/ event_type = "DELETED" \/ init
    THEN LET timeout == computed_timeout(event_type, init, file)
         IN  IF timeout_differs(w, timeout)
             THEN LET w1 == [w EXCEPT !.xss.timeout = Some(timeout)]
                      w2 == restart_inhibit(w1)
                  IN  emit_timeout_changed(w2, timeout)
             ELSE w
    ELSE w

\* a decoding that takes only BLANK for active, and LOCK for inactive
event_active_blank_only(state) == state = W_BLANK

\* _read_from_watcher: `active = state != 'UNBLANK'`
event_active(state) == state # W_UNBLANK

\* _read_from_watcher: `self._locked = state == 'LOCK'`
event_locked(state) == state = W_LOCK

\* a handler that takes every line for a change of active
active_differs_always(w, active) == TRUE

\* _read_from_watcher: `if active != self._active`
active_differs(w, active) == Some(active) # w.xss.active

\* a handler that commits the new active and leaves the old active_since
change_active_keeping_since(w, active, since) ==
    emit_active_changed([w EXCEPT !.xss.active = Some(active)], active)

\* a change that notifies before it stores the new value
change_active_emitting_first(w, active, since) ==
    LET w1 == emit_active_changed(w, active)
    IN  [w1 EXCEPT !.xss.active = Some(active),
                   !.xss.active_since = Some(since)]

\* _read_from_watcher: the body of `if active != self._active`
change_active(w, active, since) ==
    emit_active_changed([w EXCEPT !.xss.active = Some(active),
                                  !.xss.active_since = Some(since)],
                        active)

\* one call of _read_from_watcher, source.read(1) giving c
read_from_watcher(w, c) ==
    IF c # "\n"
    THEN [w EXCEPT !.xss.watcher_read_buf = Some(Append(@[1], c)),
                   !.result = Some(TRUE)]
    ELSE LET event == w.xss.watcher_read_buf[1]
             w1    == [w EXCEPT !.xss.watcher_read_buf = Some(<< >>)]
             parts == split1(event)
         IN  IF Len(parts) # 2
             THEN Raise(w1)  \* ValueError: `state, rest = ...` cannot unpack
             ELSE LET state == parts[1]
                      rest  == parts[2]
                  IN  IF state = W_BLANK \/ state = W_LOCK \/ state = W_UNBLANK
                      THEN LET active == event_active(state)
                               since  == strptime_datetime(strip(rest))
                           IN  IF since = None
                               THEN Raise(w1)  \* ValueError of strptime
                               ELSE LET w2 == [w1 EXCEPT !.xss.locked = Some(event_locked(state))]
                                    IN  IF active_differs(w2, active)
                                        THEN Return(change_active(w2, active, since[1]), TRUE)
                                        ELSE Return(w2, TRUE)
                      ELSE Return(w1, TRUE)

\* the callback keeps the watch: it ran without raising and returned True
KeepsWatch(w) == ~w.raised /\ w.result = Some(TRUE)

\* the main loop calls _read_from_watcher once for each byte it can read,
\* as long as the watch is kept
RECURSIVE feed_watch(_, _, _)
feed_watch(w, bytes, i) ==
    IF i > Len(bytes) \/ (i > 1 /\ ~KeepsWatch(w)) THEN w
    ELSE feed_watch(read_from_watcher(w, bytes[i]), bytes, i + 1)

\* a call that raises or does not return True detaches the watch
dispatch_watch(w, bytes) ==
    LET w1 == feed_watch(w, bytes, 1)
    IN  IF KeepsWatch(w1) THEN w1
        ELSE [w1 EXCEPT !.sources = { s \in @ : s.kind # "io" }]

\* the longest prefix of s without '(': what ([^\(]+) takes
RECURSIVE TakeNotParen(_)
TakeNotParen(s) ==
    IF s = << >> \/ Head(s) = "(" THEN << >>
    ELSE <<Head(s)>> \o TakeNotParen(Tail(s))

\* the pattern r"screen (\S+) since ([^\(]+)" matched at the start of s
match_time(s) ==
    IF StartsWith(s, W_screen)
    THEN LET a     == Drop(s, Len(W_screen))
             state == TakeWord(a)
             b     == Drop(a, Len(state))
         IN  IF state # << >> /\ StartsWith(b, W_since)
             THEN LET date_str == TakeNotParen(Drop(b, Len(W_since)))
                  IN  IF date_str # << >>
                      THEN Some([state |-> state, date_str |-> date_str])
                      ELSE None
             ELSE None
    ELSE None

\* re.search of that pattern: the first place of s where it matches
RECURSIVE search_time(_)
search_time(s) ==
    IF s = << >> THEN None
    ELSE IF match_time(s) # None THEN match_time(s)
    ELSE search_time(Tail(s))

\* activate, lines 84-92: the state the tracker starts from
initial_state(w, reply, clock) ==
    LET w1 == [w EXCEPT !.xss.active = Some(FALSE),
                        !.xss.active_since = Some(clock),
                        !.xss.locked = Some(FALSE),
                        !.notified = None]
        w2 == do_command(w1, "-time")
    IN  IF reply = None
        THEN Raise(w2)  \* AttributeError: None has no decode
        ELSE LET match == search_time(reply[1])
             IN  IF match # None
                 THEN LET state == match[1].state
                          since == strptime_datetime(strip(match[1].date_str))
                          w3    == [w2 EXCEPT !.xss.active = Some(state # W_nonblanked)]
                      IN  IF since = None
                          THEN Raise(w3)  \* ValueError of strptime
                          ELSE [w3 EXCEPT !.xss.active_since = since,
                                          !.xss.locked = Some(state = W_locked)]
                 ELSE w2

\* activate, lines 94-110: the watcher, the options file and its monitor
start_watching(w, spawn, file) ==
    IF spawn = "no watcher"
    THEN Raise(Did(w, <<"Popen", "xscreensaver-command -watch", "OSError">>))
    ELSE LET w1 == Did([w EXCEPT !.xss.watcher = Some("Popen"),
                                 !.xss.watcher_read_buf = Some(<< >>)],
                       <<"Popen", "xscreensaver-command -watch">>)
             w2 == [io_add_watch(w1) EXCEPT
                       !.xss.watcher_id = Some(NewSourceId(w1)),
                       !.xss.timeout = Some(-1),
                       !.xss.options_path = Some("~/.xscreensaver")]
             w3 == read_timeout(w2, "None", TRUE, file)
         IN  [w3 EXCEPT !.xss.options_gfile = Some("GFile"),
                        !.xss.options_monitor = Some("GFileMonitor"),
                        !.xss.options_monitor_id = Some("changed"),
                        !.monitor = TRUE]

\* XScreenSaverManager.activate
xss_activate(w, spawn, reply, file, clock) ==
    IF spawn = "no xscreensaver"
    THEN Raise(Did(w, <<"Popen", "xscreensaver -nosplash", "OSError">>))
    ELSE LET w1 == Did([w EXCEPT !.xss.screensaver = Some("Popen")],
                       <<"Popen", "xscreensaver -nosplash">>)
             w2 == initial_state(w1, reply, clock)
         IN  IF w2.raised THEN w2 ELSE start_watching(w2, spawn, file)

\* a teardown that leaves the inhibition timer attached
stop_inhibit_never(w) == w

\* deactivate: `if self._inhibit_id is not None: GLib.source_remove(...)`
stop_inhibit(w) ==
    IF w.xss.inhibit_id # None
    THEN source_remove(w, w.xss.inhibit_id[1])
    ELSE w

\* a teardown that sends 'exit' without asking poll()
exit_screensaver_unpolled(w, running) ==
    IF w.xss.screensaver # None THEN do_command(w, "-exit") ELSE w

\* deactivate: `if self._screensaver and self._screensaver.poll() is None`
exit_screensaver(w, running) ==
    IF w.xss.screensaver # None /\ running THEN do_command(w, "-exit") ELSE w

\* XScreenSaverManager.deactivate; running says that the lock daemon has
\* not ended (self._screensaver.poll() is None)
xss_deactivate(w, running) ==
    LET w1 == stop_inhibit(w)
        w2 == IF w1.xss.options_monitor # None
              THEN Did([w1 EXCEPT !.monitor = FALSE], <<"monitor.cancel">>)
              ELSE w1
        w3 == IF w2.xss.watcher_id # None
              THEN source_remove(w2, w2.xss.watcher_id[1])
              ELSE w2
        w4 == IF w3.xss.watcher # None
              THEN Did(w3, <<"watcher.terminate">>)
              ELSE w3
        w5 == exit_screensaver(w4, running)
    IN  [w5 EXCEPT !.xss = xss_init(~w.xss.manage_dpms), !.notified = None]

\* a setter that takes the command to have worked and records the new value
set_active_optimistic(w, value) ==
    IF Some(value) # w.xss.active
    THEN [do_command(w, IF value THEN "-activate" ELSE "-deactivate") EXCEPT
             !.xss.active = Some(value)]
    ELSE w

\* the setter of XScreenSaverManager.active
set_active(w, value) ==
    IF Some(value) # w.xss.active
    THEN do_command(w, IF value THEN "-activate" ELSE "-deactivate")
    ELSE w

\* the getter of XScreenSaverManager.active
get_active(w) == [w EXCEPT !.result = w.xss.active]

\* XScreenSaverManager.active_time
active_time(w, clock) ==
    IF w.xss.active = Some(TRUE)
    THEN LET delta == TimeDelta(clock, w.xss.active_since[1])
         IN  Return(w, delta.seconds + (delta.days * 3600))
    ELSE Return(w, 0)

\* a lock() that does not look at self._locked
lock_unguarded(w) == do_command(w, "-lock")

\* XScreenSaverManager.lock
lock(w) ==
    IF w.xss.locked # Some(TRUE) THEN do_command(w, "-lock") ELSE w

\* XScreenSaverManager.simulate_user_activity
simulate_user_activity(w) == do_command(w, "-deactivate")

(***************************************************************************)
(* GnomeSessionManagerListener                                             *)
(***************************************************************************)
\* the handler main() connects to 'inhibited-changed'
inhibited_changed(w, i) == IF i THEN inhibit(w) ELSE uninhibit(w)

\* a listener that emits 'inhibited-changed' at every answer
check_inhibited_always(w, inhibited) ==
    inhibited_changed(
        Did([w EXCEPT !.gsm.inhibited = Some(inhibited)],
            <<"emit", "inhibited-changed">>),
        inhibited)

\* _check_inhibited: inhibited is the answer of IsInhibited(8)
check_inhibited(w, inhibited) ==
    IF Some(inhibited) # w.gsm.inhibited
    THEN inhibited_changed(
            Did([w EXCEPT !.gsm.inhibited = Some(inhibited)],
                <<"emit", "inhibited-changed">>),
            inhibited)
    ELSE w

\* GnomeSessionManagerListener.activate
gsm_activate(w, inhibited) ==
    check_inhibited([w EXCEPT !.gsm.iface = Some("org.gnome.SessionManager")],
                    inhibited)

\* GnomeSessionManagerListener.deactivate
gsm_deactivate(w) == [w EXCEPT !.gsm = gsm_init]

(***************************************************************************)
(* main(): construction, activation in order, the main loop, deactivation  *)
(* in reverse order                                                        *)
(***************************************************************************)
Init ==
    /\ pc = "activate"
    /\ activated = << >>
    /\ deactivated = << >>
    /\ \E no_dpms \in BOOLEAN : xss = xss_init(no_dpms)
    /\ sources = {}
    /\ monitor = FALSE
    /\ gs_service = None
    /\ gsm = gsm_init
    /\ options_file \in OptionsFiles
    /\ op = "main"
    /\ arg = None
    /\ trace = << >>
    /\ delivered = << >>
    /\ timeout_changed = << >>
    /\ broadcast = << >>
    /\ ret = None
    /\ notified = None
    /\ dpms = None

\* the component main() activates next / deactivates next
Activating(k) ==
    /\ pc = "activate"
    /\ Len(activated) < Len(Order)
    /\ Order[Len(activated) + 1] = k

Deactivating(k) ==
    /\ pc = "deactivate"
    /\ Len(deactivated) < Len(Order)
    /\ Order[Len(Order) - Len(deactivated)] = k

\* `for k in order: getobj(k).activate()`: w is the state activate() leaves
Activated(k, a, w) ==
    /\ activated' = (IF w.raised THEN activated ELSE Append(activated, k))
    /\ pc' = (IF w.raised THEN "crash"
              ELSE IF Len(activated) + 1 = Len(Order) THEN "loop"
              ELSE "activate")
    /\ op' = k \o ".activate"
    /\ arg' = a
    /\ Commit(w)
    /\ UNCHANGED << deactivated, options_file >>

\* `for k in reversed(order): getobj(k).deactivate()`
Deactivated(k, a, w) ==
    /\ deactivated' = Append(deactivated, k)
    /\ pc' = (IF Len(deactivated) + 1 = Len(Order) THEN "exit" ELSE "deactivate")
    /\ op' = k \o ".deactivate"
    /\ arg' = a
    /\ Commit(w)
    /\ UNCHANGED << activated, options_file >>

\* a callback or a method call the main loop dispatches
Dispatched(name, a, w) ==
    /\ op' = name
    /\ arg' = a
    /\ Cardinality(Timers(w.sources)) <= MaxTimers
    /\ Commit(w)
    /\ UNCHANGED << pc, activated, deactivated, options_file >>

GSettingsActivate ==
    /\ Activating("gset_manager")
    /\ Activated("gset_manager", None, World)

XssActivate(spawn, reply) ==
    /\ Activating("xss_manager")
    /\ Activated("xss_manager", [spawn |-> spawn, reply |-> reply],
                 xss_activate(World, spawn, reply, options_file, ClockStart))

\* FauxGnomeScreensaverService.activate
ServiceActivate ==
    /\ Activating("gs_service")
    /\ Activated("gs_service", None,
                 [World EXCEPT !.gs_service = Some("FauxGnomeScreensaverDBusService")])

GsmActivate(inhibited) ==
    /\ Activating("gsm_listener")
    /\ Activated("gsm_listener", inhibited, gsm_activate(World, inhibited))

ConsoleKitActivate ==
    /\ Activating("ck_listener")
    /\ Activated("ck_listener", None, World)

LogindActivate ==
    /\ Activating("sl_listener")
    /\ Activated("sl_listener", None, World)

\* mainloop.quit(): Quit() over D-Bus, SIGHUP, SIGTERM or a KeyboardInterrupt
Quit ==
    /\ pc = "loop"
    /\ pc' = "deactivate"
    /\ op' = "quit"
    /\ arg' = None
    /\ Commit(World)
    /\ UNCHANGED << activated, deactivated, options_file >>

LogindDeactivate ==
    /\ Deactivating("sl_listener")
    /\ Deactivated("sl_listener", None, World)

ConsoleKitDeactivate ==
    /\ Deactivating("ck_listener")
    /\ Deactivated("ck_listener", None, World)

GsmDeactivate ==
    /\ Deactivating("gsm_listener")
    /\ Deactivated("gsm_listener", None, gsm_deactivate(World))

\* FauxGnomeScreensaverService.deactivate
ServiceDeactivate ==
    /\ Deactivating("gs_service")
    /\ Deactivated("gs_service", None, [World EXCEPT !.gs_service = None])

XssDeactivate(running) ==
    /\ Deactivating("xss_manager")
    /\ Deactivated("xss_manager", running, xss_deactivate(World, running))

GSettingsDeactivate ==
    /\ Deactivating("gset_manager")
    /\ Deactivated("gset_manager", None, World)

(***************************************************************************)
(* The main loop                                                           *)
(***************************************************************************)
\* the watcher's output is readable: _read_from_watcher runs for each byte
\* (the lines of WatcherBursts carry times before ClockStart: the watcher
\* stamps a line with the time of the event, which is not after now)
ReadFromWatcher(bytes) ==
    /\ pc = "loop"
    /\ \E s \in sources : s.kind = "io"
    /\ Dispatched("_read_from_watcher", bytes, dispatch_watch(World, bytes))

\* the file monitor reports event_type: the handler of 'changed' runs
OptionsFileChanged(event_type) ==
    /\ pc = "loop"
    /\ monitor
    /\ Dispatched("_read_timeout", event_type,
                  read_timeout(World, event_type, FALSE, options_file))

\* somebody writes or removes ~/.xscreensaver
OptionsFileWritten(file) ==
    /\ pc = "loop"
    /\ file # options_file
    /\ options_file' = file
    /\ op' = "write"
    /\ arg' = None
    /\ Commit(World)
    /\ UNCHANGED << pc, activated, deactivated >>

\* SetActive(value) over D-Bus; 'unlock' of ConsoleKit or logind is
\* SetActive(False)
SetActive(value) ==
    /\ pc = "loop"
    /\ Dispatched("set_active", value, set_active(World, value))

\* GetActive() over D-Bus
GetActive ==
    /\ pc = "loop"
    /\ Dispatched("get_active", None, get_active(World))

\* GetActiveTime() over D-Bus, datetime.datetime.now() giving clock
GetActiveTime(clock) ==
    /\ pc = "loop"
    /\ Dispatched("active_time", clock, active_time(World, clock))

\* Lock() over D-Bus; 'lock' of ConsoleKit or logind
Lock ==
    /\ pc = "loop"
    /\ Dispatched("lock", None, lock(World))

\* SimulateUserActivity() over D-Bus; 'is-active' of ConsoleKit or logind
SimulateUserActivity ==
    /\ pc = "loop"
    /\ Dispatched("simulate_user_activity", None, simulate_user_activity(World))

\* a caller of the tracker calls inhibit()
Inhibit ==
    /\ pc = "loop"
    /\ Dispatched("inhibit", None, inhibit(World))

\* a caller of the tracker calls uninhibit()
Uninhibit ==
    /\ pc = "loop"
    /\ Dispatched("uninhibit", None, uninhibit(World))

\* InhibitorAdded / InhibitorRemoved of the session manager
InhibitorsChanged(inhibited) ==
    /\ pc = "loop"
    /\ Dispatched("_check_inhibited", inhibited, check_inhibited(World, inhibited))

\* a timeout source is due: GLib calls _do_inhibit and keeps the source
\* when the call returns True
InhibitTimerFires(s) ==
    /\ pc = "loop"
    /\ s \in Timers(sources)
    /\ LET w == do_inhibit(World)
       IN  Dispatched("_do_inhibit", None,
                      IF w.result = Some(TRUE) THEN w
                      ELSE [w EXCEPT !.sources = @ \ {s}])

Next ==
    \/ GSettingsActivate
    \/ \E spawn \in {"ok", "no xscreensaver", "no watcher"}, reply \in TimeReplies :
            XssActivate(spawn, reply)
    \/ ServiceActivate
    \/ \E inhibited \in BOOLEAN : GsmActivate(inhibited)
    \/ ConsoleKitActivate
    \/ LogindActivate
    \/ \E bytes \in WatcherBursts : ReadFromWatcher(bytes)
    \/ \E e \in FileMonitorEvents : OptionsFileChanged(e)
    \/ \E file \in OptionsFiles : OptionsFileWritten(file)
    \/ \E value \in BOOLEAN : SetActive(value)
    \/ GetActive
    \/ \E clock \in ClockTimes : GetActiveTime(clock)
    \/ Lock
    \/ SimulateUserActivity
    \/ Inhibit
    \/ Uninhibit
    \/ \E inhibited \in BOOLEAN : InhibitorsChanged(inhibited)
    \/ \E s \in sources : InhibitTimerFires(s)
    \/ Quit
    \/ LogindDeactivate
    \/ ConsoleKitDeactivate
    \/ GsmDeactivate
    \/ ServiceDeactivate
    \/ \E running \in BOOLEAN : XssDeactivate(running)
    \/ GSettingsDeactivate

Spec == Init /\ [][Next]_vars

\* the program as main() wires it: nothing but the handler of
\* 'inhibited-changed' calls inhibit() or uninhibit() of the tracker
NextMain ==
    \/ GSettingsActivate
    \/ \E spawn \in {"ok", "no xscreensaver", "no watcher"}, reply \in TimeReplies :
            XssActivate(spawn, reply)
    \/ ServiceActivate
    \/ \E inhibited \in BOOLEAN : GsmActivate(inhibited)
    \/ ConsoleKitActivate
    \/ LogindActivate
    \/ \E bytes \in WatcherBursts : ReadFromWatcher(bytes)
    \/ \E e \in FileMonitorEvents : OptionsFileChanged(e)
    \/ \E file \in OptionsFiles : OptionsFileWritten(file)
    \/ \E value \in BOOLEAN : SetActive(value)
    \/ GetActive
    \/ \E clock \in ClockTimes : GetActiveTime(clock)
    \/ Lock
    \/ SimulateUserActivity
    \/ \E inhibited \in BOOLEAN : InhibitorsChanged(inhibited)
    \/ \E s \in sources : InhibitTimerFires(s)
    \/ Quit
    \/ LogindDeactivate
    \/ ConsoleKitDeactivate
    \/ GsmDeactivate
    \/ ServiceDeactivate
    \/ \E running \in BOOLEAN : XssDeactivate(running)
    \/ GSettingsDeactivate

SpecMain == Init /\ [][NextMain]_vars

(***************************************************************************)
(* What the specification says of the program.  The values it expects are  *)
(* written out here from the text of the inputs, not computed by the       *)
(* operators above.                                                        *)
(***************************************************************************)
Range(f) == { f[i] : i \in DOMAIN f }

\* Mon Jan 01 2024, h:m:s, as strptime_datetime gives a datetime
Jan01(h, m, s) == [ord |-> 738886, sec |-> (h * 3600) + (m * 60) + s]

\* Tue Jan 02 2024, h:m:s
Jan02(h, m, s) == [ord |-> 738887, sec |-> (h * 3600) + (m * 60) + s]

\* the lines of the watcher that carry a known state and a valid timestamp
EventLines == { Line_BLANK, Line_LOCK, Line_UNBLANK }

\* the event such a line decodes to: active = (STATE != UNBLANK),
\* locked = (STATE == LOCK), since = the timestamp
Said(line) ==
    CASE line = Line_BLANK   -> [active |-> TRUE,  locked |-> FALSE, since |-> Jan01(10, 0, 0)]
      [] line = Line_LOCK    -> [active |-> TRUE,  locked |-> TRUE,  since |-> Jan01(10, 0, 5)]
      [] line = Line_UNBLANK -> [active |-> FALSE, locked |-> FALSE, since |-> Jan01(10, 0, 5)]

\* the seconds a parse of the options file is to yield: the value of the
\* first line of two tokens whose first is 'timeout:', 600 otherwise
ParseYields(file) ==
    CASE file = None             -> 600  \* unreadable
      [] file = Some(File_330)   -> 330  \* 'timeout: 00:05:30'
      [] file = Some(File_bogus) -> 600  \* 'timeout: bogus', then 'timeout: 00:01:00'
      [] file = Some(File_25)    -> 25   \* 'lock: True', 'timeout:\t0:00:25', ...
      [] file = Some(File_three) -> 600  \* 'timeout: 0:10:00 x', 'lock: True'

\* the milliseconds between two ticks for a timeout in seconds:
\* max(20, timeout - 10) seconds
TickEvery(timeout) == 1000 * (IF timeout - 10 > 20 THEN timeout - 10 ELSE 20)

\* the steps of a trace that suppress the screensaver: a command of the
\* helper, or a change of DPMS
Suppressions(t) ==
    { i \in DOMAIN t : t[i][1] = "xscreensaver-command" \/ t[i][1] = "xset" }

\* the step armed an inhibition timer: inhibit() ran in it
InhibitRan == <<"GLib.timeout_add">> \in Range(trace)

\* C1: in every state from the activation of the tracker on, locked implies
\* active, and it does so in the state each active-changed notification is
\* delivered in
C1_LockedImpliesActive ==
    /\ xss.locked = Some(TRUE) => xss.active = Some(TRUE)
    /\ \A i \in DOMAIN delivered :
          delivered[i].locked = Some(TRUE) => delivered[i].active = Some(TRUE)

\* a LOCK line has taken the tracker from inactive to locked, and the
\* notification was delivered with locked already set
C1_Witness ==
    /\ op = "_read_from_watcher"
    /\ arg = Line_LOCK
    /\ xss.locked = Some(TRUE)
    /\ Len(delivered) = 1
    /\ delivered[1].locked = Some(TRUE)

\* C2: a complete line BLANK, LOCK or UNBLANK with a valid timestamp, whose
\* decoded active differs from the tracker's, commits active, locked and
\* active_since as decoded and emits exactly one active-changed with the new
\* active, delivered after the three are committed
C2_ChangeCommitsAndNotifiesOnce ==
    [][ \A line \in EventLines :
          ( /\ op' = "_read_from_watcher"
            /\ arg' = line
            /\ xss.active # Some(Said(line).active) )
          => /\ xss'.active = Some(Said(line).active)
             /\ xss'.locked = Some(Said(line).locked)
             /\ xss'.active_since = Some(Said(line).since)
             /\ delivered' = << [ value  |-> Said(line).active,
                                  active |-> Some(Said(line).active),
                                  locked |-> Some(Said(line).locked),
                                  since  |-> Some(Said(line).since) ] >>
      ]_vars

\* BLANK from inactive has given (true, false, 10:00:00) and one
\* active-changed(true)
C2_Witness ==
    /\ op = "_read_from_watcher"
    /\ arg = Line_BLANK
    /\ xss.active = Some(TRUE)
    /\ xss.locked = Some(FALSE)
    /\ xss.active_since = Some(Jan01(10, 0, 0))
    /\ Len(delivered) = 1
    /\ delivered[1].value = TRUE

\* C3: a complete line BLANK, LOCK or UNBLANK with a valid timestamp, whose
\* decoded active equals the tracker's, emits no active-changed and leaves
\* active and active_since as they were, and sets locked to (STATE == LOCK)
C3_SameActiveOnlySetsLocked ==
    [][ \A line \in EventLines :
          ( /\ op' = "_read_from_watcher"
            /\ arg' = line
            /\ xss.active = Some(Said(line).active) )
          => /\ delivered' = << >>
             /\ broadcast' = << >>
             /\ xss'.active = xss.active
             /\ xss'.active_since = xss.active_since
             /\ xss'.locked = Some(Said(line).locked)
      ]_vars

\* LOCK after BLANK: locked is set, nothing is notified, and active_since is
\* still the time of the BLANK line
C3_Witness ==
    /\ op = "_read_from_watcher"
    /\ arg = Line_LOCK
    /\ delivered = << >>
    /\ xss.locked = Some(TRUE)
    /\ xss.active_since = Some(Jan01(10, 0, 0))

\* C4: after inhibit() has run, whoever called it, exactly one timer is
\* attached, it is the one the tracker holds, and it ticks every
\* max(20, timeout - 10) seconds for the timeout the tracker holds
C4_InhibitLeavesOneTimer ==
    InhibitRan =>
        /\ Cardinality(Timers(sources)) = 1
        /\ \A s \in Timers(sources) :
              /\ xss.inhibit_id = Some(s.id)
              /\ s.ms = TickEvery(xss.timeout[1])

\* inhibit() called with a timer attached and a timeout of 25 seconds: the
\* old timer was removed, and the one left ticks every 20 seconds
C4_Witness ==
    /\ op = "inhibit"
    /\ <<"GLib.source_remove">> \in Range(trace)
    /\ xss.timeout = Some(25)
    /\ \E s \in Timers(sources) : s.ms = 20000 /\ Timers(sources) = {s}

\* C5: a tick that runs while locked, the one inside inhibit() or one of the
\* timer, runs no helper command and changes no DPMS setting, and the timer
\* stays attached
C5_LockedTickDoesNothing ==
    [][ ( /\ xss.locked = Some(TRUE)
          /\ \/ op' = "_do_inhibit"
             \/ InhibitRan' )
        => /\ Suppressions(trace') = {}
           /\ op' = "_do_inhibit" =>
                 /\ trace' = << >>
                 /\ sources' = sources
                 /\ xss'.inhibit_id = xss.inhibit_id
           /\ \E s \in Timers(sources') : xss'.inhibit_id = Some(s.id)
      ]_vars

\* the timer has ticked while locked, with DPMS managed: nothing was run
\* and the timer is still attached
C5_Witness ==
    /\ op = "_do_inhibit"
    /\ xss.locked = Some(TRUE)
    /\ xss.manage_dpms
    /\ trace = << >>
    /\ \E s \in Timers(sources) : xss.inhibit_id = Some(s.id)

\* C6: a parse of the options file, at activation or on CHANGES_DONE_HINT,
\* leaves the tracker with the seconds of the first line of two tokens whose
\* first is 'timeout:', and with 600 when the file is unreadable, no line is
\* such a line, or its value does not parse; what timeout-changed carries is
\* that value too
C6_ParseOfOptionsFile ==
    ( \/ op = "_read_timeout" /\ arg = "CHANGES_DONE_HINT"
      \/ op = "xss_manager.activate" /\ pc # "crash" )
    => /\ xss.timeout = Some(ParseYields(options_file))
       /\ \A i \in DOMAIN timeout_changed :
             timeout_changed[i].value = ParseYields(options_file)

\* 'timeout: bogus' followed by 'timeout: 00:01:00' has been read on a
\* notification, and the timeout went back to 600
C6_Witness ==
    /\ op = "_read_timeout"
    /\ arg = "CHANGES_DONE_HINT"
    /\ options_file = Some(File_bogus)
    /\ xss.timeout = Some(600)
    /\ Len(timeout_changed) = 1

\* C7: CHANGES_DONE_HINT or DELETED, when the timeout it computes is the one
\* the tracker holds, emits no timeout-changed, runs no tick, and leaves the
\* sources and the tracker as they were; so does CHANGES_DONE_HINT right
\* after CHANGES_DONE_HINT
C7_EqualTimeoutIsSilent ==
    [][ /\ ( /\ op' = "_read_timeout"
             /\ \/ arg' = "DELETED" /\ xss.timeout = Some(600)
                \/ /\ arg' = "CHANGES_DONE_HINT"
                   /\ xss.timeout = Some(ParseYields(options_file)) )
           => /\ timeout_changed' = << >>
              /\ trace' = << >>
              /\ sources' = sources
              /\ xss' = xss
        /\ ( /\ op = "_read_timeout"
             /\ arg = "CHANGES_DONE_HINT"
             /\ op' = "_read_timeout"
             /\ arg' = "CHANGES_DONE_HINT" )
           => /\ timeout_changed' = << >>
              /\ trace' = << >>
              /\ sources' = sources
      ]_vars

\* CHANGES_DONE_HINT has run with inhibition engaged and a file of 330
\* seconds already read: nothing was emitted or run
C7_Witness ==
    /\ op = "_read_timeout"
    /\ arg = "CHANGES_DONE_HINT"
    /\ options_file = Some(File_330)
    /\ xss.timeout = Some(330)
    /\ xss.inhibit_id # None
    /\ timeout_changed = << >>
    /\ trace = << >>

\* C8: the active time is 0 when active is false and otherwise the whole
\* seconds from active_since to now, a day or more included
C8_ActiveTimeIsElapsedSeconds ==
    op = "active_time" =>
        ret = Some(IF xss.active = Some(TRUE)
                   THEN ((arg.ord - xss.active_since[1].ord) * 86400)
                            + (arg.sec - xss.active_since[1].sec)
                   ELSE 0)

\* C9: with the facade active, the ActiveChanged signals of a step are the
\* active-changed notifications of the step, one for one and with the same
\* values; never is there a signal without its notification
C9_OneBroadcastPerNotification ==
    /\ gs_service # None => Len(broadcast) = Len(delivered)
    /\ Len(broadcast) <= Len(delivered)
    /\ \A i \in DOMAIN broadcast : broadcast[i] = delivered[i].value

\* UNBLANK from active with the facade active: one notification, one signal,
\* both False
C9_Witness ==
    /\ op = "_read_from_watcher"
    /\ arg = Line_UNBLANK
    /\ gs_service # None
    /\ Len(delivered) = 1
    /\ delivered[1].value = FALSE
    /\ broadcast = << FALSE >>

\* the calls that send a command or arm and disarm the suppression
CommandOps ==
    { "set_active", "lock", "simulate_user_activity", "inhibit", "uninhibit",
      "_do_inhibit" }

\* C10: SetActive, Lock, SimulateUserActivity, inhibit, uninhibit and a tick
\* leave active, locked and active_since as they were and emit no
\* active-changed; once the tracker is activated the three change in
\* _read_from_watcher and in deactivate() only
C10_CommandsLeaveTheState ==
    [][ /\ op' \in CommandOps
           => /\ xss'.active = xss.active
              /\ xss'.locked = xss.locked
              /\ xss'.active_since = xss.active_since
              /\ delivered' = << >>
        /\ ( \/ xss'.active # xss.active
             \/ xss'.locked # xss.locked
             \/ xss'.active_since # xss.active_since )
           => op' \in { "xss_manager.activate", "_read_from_watcher",
                        "xss_manager.deactivate" }
      ]_vars

\* SetActive(True) on an inactive tracker: the command went out and active
\* is still False
C10_Witness ==
    /\ op = "set_active"
    /\ arg = TRUE
    /\ xss.active = Some(FALSE)
    /\ trace = << <<"xscreensaver-command", "-activate">> >>

\* C11: a complete line with the state BLANK, LOCK or UNBLANK and a rest that
\* is no timestamp is dropped: active, locked and active_since stay, nothing
\* is notified, the callback returns True, and the watch stays attached so
\* that the next line is read
C11_BadTimestampIsDropped ==
    [][ ( /\ op' = "_read_from_watcher"
          /\ arg' = Line_BADTS )
        => /\ xss'.active = xss.active
           /\ xss'.locked = xss.locked
           /\ xss'.active_since = xss.active_since
           /\ delivered' = << >>
           /\ ret' = Some(TRUE)
           /\ \E s \in sources' : s.kind = "io"
      ]_vars

\* C12: a complete line whose first token is not BLANK, LOCK or UNBLANK, a
\* line of one token and an empty line included, is ignored: the state of
\* the tracker stays, nothing is notified, the callback returns True, and
\* the watch stays attached so that the next line is read
C12_UnknownLineIsIgnored ==
    [][ ( /\ op' = "_read_from_watcher"
          /\ arg' \in { Line_RUN, Line_FOO, Line_EMPTY } )
        => /\ xss' = xss
           /\ delivered' = << >>
           /\ ret' = Some(TRUE)
           /\ \E s \in sources' : s.kind = "io"
      ]_vars

\* the helper commands a step ran
Commands(t) == { i \in DOMAIN t : t[i][1] = "xscreensaver-command" }

\* C13: a helper command that yields no output raises nothing in the
\* operation that ran it and is not run again; activate(), when the 'time'
\* query yields None, goes on with active = False, locked = False and
\* active_since = now
C13_NoOutputIsNoFailure ==
    /\ op \in { "set_active", "lock", "simulate_user_activity", "_do_inhibit" }
          => pc = "loop" /\ Cardinality(Commands(trace)) <= 1
    /\ ( /\ op = "xss_manager.activate"
         /\ arg.spawn = "ok"
         /\ arg.reply = None )
       => /\ pc # "crash"
          /\ Cardinality(Commands(trace)) = 1
          /\ xss.active = Some(FALSE)
          /\ xss.locked = Some(FALSE)
          /\ xss.active_since = Some(Jan01(10, 1, 30))

C15_DeletedAndOtherEvents ==
    [][ op' = "_read_timeout" =>
          /\ arg' = "DELETED" =>
                /\ xss'.timeout = Some(600)
                /\ Len(timeout_changed') = (IF xss.timeout = Some(600) THEN 0 ELSE 1)
                /\ \A i \in DOMAIN timeout_changed' : timeout_changed'[i].value = 600
          /\ arg' \notin { "CHANGES_DONE_HINT", "DELETED" } =>
                /\ xss' = xss
                /\ sources' = sources
                /\ timeout_changed' = << >>
                /\ trace' = << >>
      ]_vars

\* DELETED with 'timeout: 00:05:30' still in the file and 330 stored: the
\* timeout is 600 and timeout-changed(600) was emitted
C15_Witness ==
    /\ op = "_read_timeout"
    /\ arg = "DELETED"
    /\ options_file = Some(File_330)
    /\ xss.timeout = Some(600)
    /\ Len(timeout_changed) = 1
    /\ timeout_changed[1].value = 600

\* C16: activate() maps the reply to the 'time' query: 'non-blanked' to
\* (False, False, T), 'locked' to (True, True, T), another word to
\* (True, False, T), and a reply the pattern does not match or whose date is
\* not in the format to (False, False, now), activation going on
C16_InitialStateOfTheReply ==
    ( /\ op = "xss_manager.activate"
      /\ arg.spawn = "ok"
      /\ arg.reply # None )
    => /\ pc # "crash"
       /\ <<xss.active, xss.locked, xss.active_since>> =
             ( CASE arg.reply = Some(Reply_nonblanked) ->
                        <<Some(FALSE), Some(FALSE), Some(Jan01(9, 59, 0))>>
                 [] arg.reply = Some(Reply_locked) ->
                        <<Some(TRUE), Some(TRUE), Some(Jan01(9, 59, 0))>>
                 [] arg.reply = Some(Reply_blanked) ->
                        <<Some(TRUE), Some(FALSE), Some(Jan01(9, 59, 0))>>
                 [] arg.reply = Some(Reply_nomatch) ->
                        <<Some(FALSE), Some(FALSE), Some(Jan01(10, 1, 30))>>
                 [] arg.reply = Some(Reply_baddate) ->
                        <<Some(FALSE), Some(FALSE), Some(Jan01(10, 1, 30))>> )

\* the record of one helper command in a trace
Cmd(c) == << <<"xscreensaver-command", c>> >>

\* C17: the setter of active runs exactly one command, -activate for True
\* and -deactivate for False, when the value differs from the tracker's
\* active and none when it equals it; lock() runs -lock exactly when locked
\* is False; simulate_user_activity() runs -deactivate in every state
C17_CommandGuards ==
    [][ /\ op' = "set_active" =>
              trace' = (IF Some(arg') # xss.active
                        THEN Cmd(IF arg' THEN "-activate" ELSE "-deactivate")
                        ELSE << >>)
        /\ op' = "lock" =>
              trace' = (IF xss.locked = Some(FALSE) THEN Cmd("-lock") ELSE << >>)
        /\ op' = "simulate_user_activity" => trace' = Cmd("-deactivate")
      ]_vars

\* Lock() on a locked tracker: nothing was run
C17_Witness ==
    /\ op = "lock"
    /\ xss.locked = Some(TRUE)
    /\ trace = << >>

\* what switching DPMS runs for a tracker: `xset +dpms` or `xset -dpms`
\* when the tracker manages DPMS, nothing when it was told not to
Xset(x, how) == IF x.manage_dpms THEN << <<"xset", how>> >> ELSE << >>

\* C18: uninhibit() with a timer armed switches DPMS on, removes the timer
\* and forgets its id, and no timer is left; with no timer armed it runs
\* nothing and changes nothing, so a second uninhibit() changes nothing
C18_UninhibitIsIdempotent ==
    [][ /\ op' = "uninhibit" =>
              IF xss.inhibit_id # None
              THEN /\ trace' = Xset(xss, "+dpms") \o << <<"GLib.source_remove">> >>
                   /\ Timers(sources') = {}
                   /\ xss' = [xss EXCEPT !.inhibit_id = None]
              ELSE /\ trace' = << >>
                   /\ xss' = xss
                   /\ sources' = sources
        /\ (op = "uninhibit" /\ op' = "uninhibit") =>
              /\ trace' = << >>
              /\ xss' = xss
              /\ sources' = sources
      ]_vars

\* uninhibit() with a timer armed and DPMS managed: `xset +dpms` ran, then
\* the timer was removed
C18_Witness ==
    /\ op = "uninhibit"
    /\ trace = << <<"xset", "+dpms">>, <<"GLib.source_remove">> >>
    /\ Timers(sources) = {}
    /\ xss.inhibit_id = None

\* what one tick runs for a tracker: nothing when locked, else the
\* -deactivate command and then `xset -dpms`
Tick(x) ==
    IF x.locked = Some(TRUE) THEN << >>
    ELSE Cmd("-deactivate") \o Xset(x, "-dpms")

\* C19: inhibit() removes the timer there is, then ticks once, then arms
\* the timer; a tick with locked False runs -deactivate and then switches
\* DPMS off; the timer's tick returns True and the timer stays attached,
\* and a timer goes only in uninhibit(), in inhibit() for its successor, or
\* in deactivate()
C19_CancelTickArm ==
    [][ /\ op' = "inhibit" =>
              trace' = (IF xss.inhibit_id # None
                        THEN << <<"GLib.source_remove">> >> ELSE << >>)
                       \o Tick(xss) \o << <<"GLib.timeout_add">> >>
        /\ op' = "_do_inhibit" =>
              /\ trace' = Tick(xss)
              /\ ret' = Some(TRUE)
              /\ sources' = sources
        /\ (Timers(sources) # {} /\ Timers(sources') = {}) =>
              op' \in { "uninhibit", "_check_inhibited", "xss_manager.deactivate" }
      ]_vars

\* the timer has ticked on an unlocked tracker that manages DPMS:
\* -deactivate ran, then `xset -dpms`, and the timer is attached
C19_Witness ==
    /\ op = "_do_inhibit"
    /\ xss.locked = Some(FALSE)
    /\ trace = << <<"xscreensaver-command", "-deactivate">>, <<"xset", "-dpms">> >>
    /\ \E s \in Timers(sources) : xss.inhibit_id = Some(s.id)

\* the places of an entry in a trace
Places(t, e) == { i \in DOMAIN t : t[i] = e }

\* the fields of the tracker that deactivate() clears
Cleared(x) == \A f \in DOMAIN x \ {"manage_dpms"} : x[f] = None

\* C20 (as stated): deactivate() runs the -exit command, then terminates
\* the watcher, then clears its fields; -exit runs only when the lock
\* daemon has not ended
C20_ExitThenTerminate ==
    op = "xss_manager.deactivate" =>
        /\ Cleared(xss)
        /\ Places(trace, <<"watcher.terminate">>) # {}
        /\ Cardinality(Places(trace, <<"xscreensaver-command", "-exit">>))
              = (IF arg THEN 1 ELSE 0)
        /\ \A i \in Places(trace, <<"xscreensaver-command", "-exit">>),
              j \in Places(trace, <<"watcher.terminate">>) : i < j

\* C20 (amended): deactivate() terminates the watcher, then runs the -exit
\* command when the lock daemon has not ended and no command when it has,
\* then clears its fields
C20_TerminateThenExit ==
    op = "xss_manager.deactivate" =>
        /\ Cleared(xss)
        /\ Cardinality(Places(trace, <<"watcher.terminate">>)) = 1
        /\ Cardinality(Places(trace, <<"xscreensaver-command", "-exit">>))
              = (IF arg THEN 1 ELSE 0)
        /\ \A i \in Places(trace, <<"xscreensaver-command", "-exit">>),
              j \in Places(trace, <<"watcher.terminate">>) :
                 j < i /\ i = Len(trace)

\* deactivate() with the lock daemon running: the watcher was terminated,
\* then -exit ran, and the fields are cleared
C20_Witness ==
    /\ op = "xss_manager.deactivate"
    /\ arg = TRUE
    /\ Len(trace) >= 2
    /\ trace[Len(trace) - 1] = <<"watcher.terminate">>
    /\ trace[Len(trace)] = <<"xscreensaver-command", "-exit">>
    /\ xss.watcher = None

\* the components main() has deactivated are the last ones it activated, the
\* last first
ReverseOfOrder(done) ==
    \A i \in DOMAIN done : done[i] = Order[(Len(Order) + 1) - i]

\* C21: components are deactivated in the reverse of the order they were
\* activated in, and from the return of the tracker's deactivate() on no
\* timer, no watch of the watcher's stream and no monitor of the options
\* file is attached and every field of the tracker is None, whatever was
\* armed before
C21_TeardownLeavesNothingArmed ==
    /\ Len(deactivated) <= Len(Order)
    /\ ReverseOfOrder(deactivated)
    /\ pc = "exit" => Len(deactivated) = Len(Order)
    /\ deactivated # << >> => Len(activated) = Len(Order)
    /\ "xss_manager" \in Range(deactivated) =>
          /\ sources = {}
          /\ monitor = FALSE
          /\ Cleared(xss)

\* deactivate() has just returned: it removed an inhibition timer and the
\* watch and cancelled the monitor, after the listeners and the service
\* were deactivated
C21_Witness ==
    /\ op = "xss_manager.deactivate"
    /\ deactivated = <<"sl_listener", "ck_listener", "gsm_listener", "gs_service",
                        "xss_manager">>
    /\ Cardinality(Places(trace, <<"GLib.source_remove">>)) = 2
    /\ <<"monitor.cancel">> \in Range(trace)
    /\ sources = {}
    /\ Cleared(xss)

\* the session listener is activated and not yet deactivated
Listening ==
    /\ "gsm_listener" \in Range(activated)
    /\ "gsm_listener" \notin Range(deactivated)

\* the places of a trace where 'inhibited-changed' is emitted
InhibitedChanged(t) == Places(t, <<"emit", "inhibited-changed">>)

\* C22: the listener emits inhibited-changed only for an answer that differs
\* from the last one it saw, and then once; inhibited-changed(True) runs
\* inhibit() and inhibited-changed(False) runs uninhibit(); an equal answer
\* changes nothing; no other step emits the signal; and while the listener
\* is active a timer is armed exactly when the last answer it saw is True
C22_TimerFollowsInhibited ==
    /\ [](Listening =>
            /\ gsm.inhibited \in {Some(TRUE), Some(FALSE)}
            /\ Timers(sources) # {} <=> gsm.inhibited = Some(TRUE)
            /\ xss.inhibit_id # None <=> gsm.inhibited = Some(TRUE)
            /\ Cardinality(Timers(sources)) <= 1)
    /\ [][ /\ op' \in {"_check_inhibited", "gsm_listener.activate"} =>
                IF Some(arg') # gsm.inhibited
                THEN /\ gsm'.inhibited = Some(arg')
                     /\ InhibitedChanged(trace') = {1}
                     /\ arg' => /\ <<"GLib.timeout_add">> \in Range(trace')
                                /\ xss'.inhibit_id # None
                                /\ Timers(sources') # {}
                     /\ ~arg' => /\ <<"GLib.timeout_add">> \notin Range(trace')
                                 /\ xss'.inhibit_id = None
                                 /\ Timers(sources') = {}
                                 /\ xss.inhibit_id # None =>
                                       <<"GLib.source_remove">> \in Range(trace')
                ELSE /\ trace' = << >>
                     /\ gsm' = gsm
                     /\ xss' = xss
                     /\ sources' = sources
           /\ op' \notin {"_check_inhibited", "gsm_listener.activate"} =>
                /\ InhibitedChanged(trace') = {}
                /\ Listening /\ Listening' =>
                      /\ gsm' = gsm
                      /\ (Timers(sources') # {}) = (Timers(sources) # {})
       ]_vars

\* the registry answers False while inhibition is engaged, the timeout being
\* the one of the options file: the signal goes out and the timer goes
C22_Witness ==
    /\ op = "_check_inhibited"
    /\ arg = FALSE
    /\ InhibitedChanged(trace) = {1}
    /\ <<"GLib.source_remove">> \in Range(trace)
    /\ xss.timeout = Some(330)
    /\ gsm.inhibited = Some(FALSE)
    /\ sources = { s \in sources : s.kind = "io" }

\* C23: an active-changed notification is delivered with the tracker's
\* active equal to the value it carries; the value it carries is the
\* negation of the value of the notification before it in the same
\* activation, and for the first one the negation of the tracker's active,
\* which until then is the one activate() derived: active does not change
\* in an activation that has notified nothing yet
C23_NotificationsAlternate ==
    /\ [](/\ Len(delivered) <= 1
          /\ \A i \in DOMAIN delivered :
                /\ delivered[i].active = Some(delivered[i].value)
                /\ notified = Some(delivered[i].value)
          /\ notified # None => xss.active = notified)
    /\ [][ /\ \A i \in DOMAIN delivered' :
                IF notified # None
                THEN delivered'[i].value = ~notified[1]
                ELSE /\ xss.active \in {Some(TRUE), Some(FALSE)}
                     /\ delivered'[i].value = ~xss.active[1]
           /\ (notified' = None /\ xss.active # None /\ xss'.active # None) =>
                xss'.active = xss.active
           /\ notified' # notified =>
                \/ delivered' # << >>
                \/ op' \in {"xss_manager.activate", "xss_manager.deactivate"}
       ]_vars

\* UNBLANK has been read with the tracker active: active-changed(False) is
\* delivered with active False
C23_Witness ==
    /\ op = "_read_from_watcher"
    /\ arg = Line_UNBLANK
    /\ Len(delivered) = 1
    /\ delivered[1].value = FALSE
    /\ delivered[1].active = Some(FALSE)
    /\ notified = Some(FALSE)
    /\ xss.active = Some(FALSE)

\* the xset commands of a trace
XsetCommands(t) == { i \in DOMAIN t : t[i][1] = "xset" }

\* C24: in every state with no inhibition timer armed the last DPMS command
\* the program ran, if it ran one, is 'xset +dpms'; and a tracker made with
\* no_dpms runs no xset at all
C24_StandbyOffOnlyWithTimer ==
    /\ Timers(sources) = {} => dpms \in {None, Some(TRUE)}
    /\ ~xss.manage_dpms => (dpms = None /\ XsetCommands(trace) = {})

=============================================================================
